---- MODULE Spec2Model ----
(***************************************************************************)
(* Snapshot comparison (NEW / REMOVED / CHANGES) of the Palacio and Adolfo *)
(* Dominguez scrapers.  Five implementations of the diff live in the       *)
(* repository; each is translated here from its own source:                *)
(*   save_snapshot    palacio_category_snapshot.py                        *)
(*   _changes_merge   palacio_manual_runner.py                            *)
(*   compute_diffs    palacio_manual_runner_selenium_v2.py                *)
(*   _compute_diffs   palacio_manual_runner_selenium_v3.py (with run_one) *)
(*   build_changes    adolfodominguez_scraper.py (with run_job)           *)
(*                                                                         *)
(* Numbers are exact decimals counted in thousandths (100.00 is 100000),   *)
(* so float(a) - float(b) is the exact difference; binary rounding of the  *)
(* IEEE doubles is not modelled.  pandas behaves as in the 2.x series:     *)
(* merge matches null keys with each other, astype(str) turns None into    *)
(* the string "None".                                                      *)
(***************************************************************************)
EXTENDS Integers, Sequences, FiniteSets, TLC

\* None / pd.NA in an identifier or text column
NULL == "NULL"
\* the text astype(str) makes of None
NoneStr == "None"
\* NaN of a numeric column (pd.to_numeric(..., errors="coerce"))
NaN == -999999

\* largest number of records of one snapshot
MaxLen == 2

\* atol of changed_num / changed_price: 0.01, in millionths
AbsTolMicro == 10000
\* tolerance of compute_diffs (v2): 1e-6, in millionths
V2TolMicro == 1
\* millionths per thousandth
MicroPerMilli == 1000
\* fillna(-1) of build_changes: -1.0 in thousandths
FillNa == -1000

Abs(x) == IF x < 0 THEN 0 - x ELSE x

\* round(n / d) to the nearest integer, ties to even, for d > 0
RoundHalfEven(n, d) ==
    LET q == n \div d
        r == n % d
    IN  IF 2 * r < d THEN q
        ELSE IF 2 * r > d THEN q + 1
        ELSE IF q % 2 = 0 THEN q ELSE q + 1

(***************************************************************************)
(* Tiles: what a parser makes of one product card before the discount is   *)
(* derived.  sku of the Palacio parsers is meta_sku or product_id.         *)
(***************************************************************************)
\* a brand or a name that is None or "": str(x or "") and fillna("") make both ""
NoText == << >>

Tile(pid, sku, url, lp, sp, name, promo) ==
    [product_id |-> pid, sku |-> sku, enlace |-> url,
     list_price |-> lp, sale_price |-> sp, name |-> name, promo |-> promo,
     brand |-> NoText]

Tiles ==
    << Tile("p1", "p1", "u1", 100000, 50000, "n1", NULL),    \* 1
       Tile("p1", "p1", "u1", 100000, 50010, "n1", NULL),    \* 2  sale +0.01
       Tile("p1", "p1", "u1", 100000, 50011, "n1", NULL),    \* 3  sale +0.011
       Tile("p1", "p1", "u1", 100000, NaN,   "n1", NULL),    \* 4  sale missing
       Tile("p1", "p1", "u1", 100000, 100000, "n1", NULL),   \* 5  sale = list
       Tile("p1", "p1", "u1", NaN,    100000, "n1", NULL),   \* 6  list missing
       Tile("p1", "p1", "u1", 100000, 50000, "n2", NULL),    \* 7  other name
       Tile("p1", "p1", "u1", 100000, 50000, "n1", "3x2"),   \* 8  promo badge
       Tile("p2", "p2", "u2", 100000, 75000, "n1", NULL),    \* 9
       Tile(NULL, NULL, "u1", 100000, 50000, "n1", NULL),    \* 10 url only
       Tile(NULL, NULL, "u1", 100000, 40000, "n1", NULL),    \* 11 url only, 50 -> 40
       Tile(NULL, NULL, "u2", 100000, 75000, "n1", NULL),    \* 12 url only
       Tile(NULL, "s1", "u1", 100000, 50000, "n1", NULL),    \* 13 meta sku, no id
       Tile(NULL, "s1", "u2", 100000, 40000, "n1", NULL) >>  \* 14 same meta sku

\* key = r.get("product_id") or r.get("enlace")
DedupKey(t) == IF t.product_id # NULL THEN t.product_id ELSE t.enlace

\* the de-duplication of the page loops: a key is kept once, a tile without key never
Deduped(S) ==
    /\ \A i \in S : DedupKey(Tiles[i]) # NULL
    /\ \A i, j \in S : i # j => DedupKey(Tiles[i]) # DedupKey(Tiles[j])

RECURSIVE SeqOfSet(_)
SeqOfSet(S) ==
    IF S = {} THEN << >>
    ELSE LET m == CHOOSE i \in S : \A j \in S : i <= j
         IN  << Tiles[m] >> \o SeqOfSet(S \ {m})

\* the snapshots a scrape can leave: de-duplicated tiles, in site order
Snapshots ==
    { SeqOfSet(S) : S \in { T \in SUBSET (1..Len(Tiles)) :
                              Cardinality(T) <= MaxLen /\ Deduped(T) } }

(***************************************************************************)
(* Discount derivation at ingestion.  The result is a percentage in        *)
(* thousandths with two decimals (25.00 is 25000).                         *)
(***************************************************************************)
\* round((1 - sale/list) * 100, 2)
PctRounded(lp, sp) == 10 * RoundHalfEven(10000 * (lp - sp), lp)

\* parse_products_from_html / parse_tile / discount_from_prices
DiscountPct(lp, sp) ==
    IF lp # NaN /\ sp # NaN /\ sp < lp THEN PctRounded(lp, sp) ELSE NaN

\* _pct_discount, applied to the numeric columns (a NaN operand gives NaN)
PctDiscountV2(lp, sp) ==
    IF lp = NaN \/ sp = NaN THEN NaN
    ELSE IF lp <= 0 THEN NaN
    ELSE PctRounded(lp, sp)

Row(t, dp) ==
    [product_id |-> t.product_id, sku |-> t.sku, enlace |-> t.enlace,
     list_price |-> t.list_price, sale_price |-> t.sale_price,
     discount_pct |-> dp, name |-> t.name, promo |-> t.promo, brand |-> t.brand]

\* the DataFrame of a Palacio / Adolfo Dominguez scrape
Frame(snap) ==
    [i \in 1..Len(snap) |-> Row(snap[i], DiscountPct(snap[i].list_price, snap[i].sale_price))]

\* the DataFrame of scrape_category (v2)
FrameV2(snap) ==
    [i \in 1..Len(snap) |-> Row(snap[i], PctDiscountV2(snap[i].list_price, snap[i].sale_price))]

\* the columns of the absent side of an outer merge
NaRow ==
    [product_id |-> NULL, sku |-> NULL, enlace |-> NULL,
     list_price |-> NaN, sale_price |-> NaN,
     discount_pct |-> NaN, name |-> NULL, promo |-> NULL, brand |-> NoText]

\* no changed_fields column
NoColumn == << "no changed_fields column" >>

(***************************************************************************)
(* prev_df.merge(df, on=key, suffixes=("_old","_new"), how="outer",        *)
(* indicator=True): every pair of rows with the same key value is one row  *)
(* (null keys match each other), then the unmatched rows of each side.     *)
(***************************************************************************)
RECURSIVE Flatten(_)
Flatten(ss) == IF ss = << >> THEN << >> ELSE Head(ss) \o Flatten(Tail(ss))

Matches(row, frame, key) == SelectSeq(frame, LAMBDA x : x[key] = row[key])

MergeRow(k, o, n, side) == [key |-> k, old |-> o, new |-> n, merge |-> side]

\* the same merge with how="left": the rows of the right frame alone are lost
MergeLeft(p, c, key) ==
    LET left(i) ==
            LET m == Matches(p[i], c, key)
            IN  IF m = << >>
                THEN << MergeRow(p[i][key], p[i], NaRow, "left_only") >>
                ELSE [j \in 1..Len(m) |-> MergeRow(p[i][key], p[i], m[j], "both")]
    IN  Flatten([i \in 1..Len(p) |-> left(i)])

MergeOuter(p, c, key) ==
    LET left(i) ==
            LET m == Matches(p[i], c, key)
            IN  IF m = << >>
                THEN << MergeRow(p[i][key], p[i], NaRow, "left_only") >>
                ELSE [j \in 1..Len(m) |-> MergeRow(p[i][key], p[i], m[j], "both")]
        right == SelectSeq(c, LAMBDA x : Matches(x, p, key) = << >>)
    IN  Flatten([i \in 1..Len(p) |-> left(i)])
        \o [j \in 1..Len(right) |-> MergeRow(right[j][key], NaRow, right[j], "right_only")]

\* changed_num / changed_price: not math.isclose(a, b, rel_tol=0.0, abs_tol=0.01)
changed_num(a, b) ==
    IF a = NaN \/ b = NaN THEN FALSE
    ELSE Abs(a - b) * MicroPerMilli > AbsTolMicro

\* isna() ^ isna()
XorNa(a, b) == (a = NaN) # (b = NaN)

\* use_pid: product_id.notna().sum() > 0 in both frames
HasPid(frame) == \E i \in 1..Len(frame) : frame[i].product_id # NULL

Sides(merged, side) == SelectSeq(merged, LAMBDA m : m.merge = side)

ChangeEntry(m, fields) == [key |-> m.key, old |-> m.old, new |-> m.new, changed_fields |-> fields]

Result(key, ch, nw, rm, raised) ==
    [key |-> key, changes |-> ch, new_items |-> nw, removed_items |-> rm, raised |-> raised]

(***************************************************************************)
(* save_snapshot (palacio_category_snapshot.py): the comparison made while *)
(* the snapshot is written.  has is "a previous parquet was found".        *)
(***************************************************************************)
\* change_mask of save_snapshot and mask of _changes_merge
MaskSnapshot(m) ==
    \/ changed_num(m.old.list_price, m.new.list_price)
    \/ changed_num(m.old.sale_price, m.new.sale_price)
    \/ changed_num(m.old.discount_pct, m.new.discount_pct)
    \/ XorNa(m.old.sale_price, m.new.sale_price)

\* mask of _compute_diffs (v3): the three changed_num terms only
MaskV3(m) ==
    \/ changed_num(m.old.list_price, m.new.list_price)
    \/ changed_num(m.old.sale_price, m.new.sale_price)
    \/ changed_num(m.old.discount_pct, m.new.discount_pct)

FillNaOf(x) == IF x = NaN THEN FillNa ELSE x

\* mask_changes of build_changes
MaskAdolfo(m) ==
    \/ changed_num(m.old.list_price, m.new.list_price)
    \/ changed_num(m.old.sale_price, m.new.sale_price)
    \/ XorNa(m.old.sale_price, m.new.sale_price)
    \/ FillNaOf(m.old.discount_pct) # FillNaOf(m.new.discount_pct)

\* the boolean mask of the named comparison, row by row
ApplyMask(mask, m) ==
    CASE mask = "MaskSnapshot" -> MaskSnapshot(m)
      [] mask = "MaskV3"       -> MaskV3(m)
      [] mask = "MaskAdolfo"   -> MaskAdolfo(m)

\* both / right_only / left_only of a merged frame, under a change mask
MergedResult(key, merged, mask) ==
    LET both    == Sides(merged, "both")
        chg     == SelectSeq(both, LAMBDA m : ApplyMask(mask, m))
        right   == Sides(merged, "right_only")
        left    == Sides(merged, "left_only")
    IN  Result(key,
               [i \in 1..Len(chg) |-> ChangeEntry(chg[i], NoColumn)],
               [i \in 1..Len(right) |-> right[i].new],
               [i \in 1..Len(left) |-> left[i].old],
               FALSE)

\* key = "product_id" if use_pid else "sku"
PidOrSku(prev_df, df) == IF HasPid(df) /\ HasPid(prev_df) THEN "product_id" ELSE "sku"

\* save_snapshot without its else branch: new_items stays the empty frame
save_snapshot_no_else(has, prevSnap, curSnap) ==
    LET df == Frame(curSnap)
    IN  IF has
        THEN LET prev_df == Frame(prevSnap)
                 key     == PidOrSku(prev_df, df)
             IN  MergedResult(key, MergeOuter(prev_df, df, key), "MaskSnapshot")
        ELSE Result("product_id", << >>, << >>, << >>, FALSE)

save_snapshot(has, prevSnap, curSnap) ==
    LET df == Frame(curSnap)
    IN  IF has
        THEN LET prev_df == Frame(prevSnap)
                 key     == PidOrSku(prev_df, df)
             IN  MergedResult(key, MergeOuter(prev_df, df, key), "MaskSnapshot")
        ELSE Result("product_id", << >>, df, << >>, FALSE)

(***************************************************************************)
(* _changes_merge (palacio_manual_runner.py), called by                    *)
(* run_single_category with prev_df = None when no parquet exists.         *)
(***************************************************************************)
changes_merge(has, prevSnap, curSnap) ==
    LET cur_df == Frame(curSnap)
    IN  IF ~has \/ prevSnap = << >>
        THEN Result("product_id", << >>, cur_df, << >>, FALSE)
        ELSE LET prev_df == Frame(prevSnap)
                 key     == PidOrSku(prev_df, cur_df)
             IN  MergedResult(key, MergeOuter(prev_df, cur_df, key), "MaskSnapshot")

\* build_xlsx_bytes: the sheets CHANGES / NEW / REMOVED of the workbook; the
\* comparison is made only when both frames have rows
build_xlsx_bytes(has, prevSnap, curSnap) ==
    IF has /\ prevSnap # << >> /\ curSnap # << >>
    THEN changes_merge(has, prevSnap, curSnap)
    ELSE Result(NULL, << >>, Frame(curSnap), << >>, FALSE)

(***************************************************************************)
(* _compute_diffs (v3) under the branch of run_one that calls it.          *)
(***************************************************************************)
\* key = "product_id", or "enlace" when cur_df[key].isna().all()
KeyV3(cur_df) == IF HasPid(cur_df) THEN "product_id" ELSE "enlace"

compute_diffs_v3(prev_df, cur_df) ==
    LET key == KeyV3(cur_df)
    IN  MergedResult(key, MergeOuter(prev_df, cur_df, key), "MaskV3")

run_one(has, prevSnap, curSnap) ==
    LET cur_df == Frame(curSnap)
    IN  IF has /\ prevSnap # << >>
        THEN compute_diffs_v3(Frame(prevSnap), cur_df)
        ELSE Result("product_id", << >>, cur_df, << >>, FALSE)

(***************************************************************************)
(* build_changes (adolfodominguez_scraper.py) under run_job, which diffs   *)
(* only when a previous parquet exists and the scrape is not empty.        *)
(***************************************************************************)
\* set_index(key) followed by Series.map: a non-unique index raises
UniqueIndex(frame, key) ==
    \A i, j \in 1..Len(frame) : i # j => frame[i][key] # frame[j][key]

build_changes(current_df, prev_df, key) ==
    IF ~UniqueIndex(prev_df, key)
    THEN Result(key, << >>, << >>, << >>, TRUE)
    ELSE MergedResult(key, MergeOuter(prev_df, current_df, key), "MaskAdolfo")

\* no CHANGES / NEW / REMOVED sheet is produced
NoDiff == Result(NULL, << >>, << >>, << >>, FALSE)

run_job(has, prevSnap, curSnap) ==
    LET df == Frame(curSnap)
    IN  IF has /\ df # << >>
        THEN LET prev_df == Frame(prevSnap)
             IN  build_changes(df, prev_df, PidOrSku(prev_df, df))
        ELSE NoDiff

(***************************************************************************)
(* compute_diffs (v2), called by main with the default key_col.            *)
(***************************************************************************)
\* astype(str) of the key column
AsStr(v) == IF v = NULL THEN NoneStr ELSE v

StrKey(frame, key) == [i \in 1..Len(frame) |-> [frame[i] EXCEPT ![key] = AsStr(@)]]

KeySet(frame, key) == { frame[i][key] : i \in 1..Len(frame) }

\* the comparison of one numeric compare column
ChangedNumV2(a, b) ==
    IF a = NaN /\ b = NaN THEN FALSE
    ELSE IF a = NaN \/ b = NaN THEN TRUE
    ELSE Abs(a - b) * MicroPerMilli > V2TolMicro

\* (a or None) != (b or None)
ChangedStrV2(a, b) == a # b

\* changed_fields of one merged row, in the order of compare_cols
ChangedFieldsV2(a, b) ==
    (IF ChangedNumV2(a.list_price, b.list_price) THEN << "list_price" >> ELSE << >>)
    \o (IF ChangedNumV2(a.sale_price, b.sale_price) THEN << "sale_price" >> ELSE << >>)
    \o (IF ChangedNumV2(a.discount_pct, b.discount_pct) THEN << "discount_pct" >> ELSE << >>)
    \o (IF ChangedStrV2(a.promo, b.promo) THEN << "promo" >> ELSE << >>)

\* common_prev[[cur_key, *compare_cols]]
CompareCols(r, key) ==
    [NaRow EXCEPT ![key] = r[key], !.list_price = r.list_price, !.sale_price = r.sale_price,
                  !.discount_pct = r.discount_pct, !.promo = r.promo]

compute_diffs(has, prevSnap, curSnap) ==
    IF curSnap = << >>
    THEN Result("product_id", << >>, << >>, << >>, FALSE)
    ELSE
    LET cur_key == "product_id"
        cur     == StrKey(FrameV2(curSnap), cur_key)
    IN  IF ~has \/ prevSnap = << >>
        THEN Result(cur_key, << >>, cur, << >>, FALSE)
        ELSE
        LET prev         == StrKey(FrameV2(prevSnap), cur_key)
            cur_keys     == KeySet(cur, cur_key)
            prev_keys    == KeySet(prev, cur_key)
            new_keys     == cur_keys \ prev_keys
            removed_keys == prev_keys \ cur_keys
            new_df       == SelectSeq(cur, LAMBDA r : r[cur_key] \in new_keys)
            removed_df   == SelectSeq(prev, LAMBDA r : r[cur_key] \in removed_keys)
            common_prev  == SelectSeq(prev, LAMBDA r : r[cur_key] \in cur_keys)
            common_cur   == SelectSeq(cur, LAMBDA r : r[cur_key] \in prev_keys)
            pairs(i)     == LET m == Matches(common_cur[i], common_prev, cur_key)
                            IN  [j \in 1..Len(m) |->
                                   ChangeEntry(MergeRow(common_cur[i][cur_key],
                                                        CompareCols(m[j], cur_key),
                                                        common_cur[i], "both"),
                                               ChangedFieldsV2(common_cur[i], m[j]))]
            merged       == Flatten([i \in 1..Len(common_cur) |-> pairs(i)])
            changed_rows == SelectSeq(merged, LAMBDA e : e.changed_fields # << >>)
        IN  Result(cur_key, changed_rows, new_df, removed_df, FALSE)

(***************************************************************************)
(* State: the two snapshots handed to a comparison and what it returned,   *)
(* and the locals of the page loop of a scrape.                            *)
(***************************************************************************)
VARIABLES
    hasPrev,    \* a previous parquet of the category exists
    prev,       \* its records (<< >> when there is none)
    cur,        \* the records of the current scrape
    impl,       \* which implementation has run ("none" before)
    out,        \* what it returned
    scraper,    \* which page loop is running ("none" outside a scrape)
    site,       \* what the site answers, page by page
    looping,    \* the page loop has not ended
    page_idx,   \* iterations of the page loop made so far
    start,      \* pages the loop has moved past (start / step)
    all_rows,   \* all_rows
    seen_ids,   \* seen_ids / seen_keys
    empty_streak,   \* empty_streak
    errors_in_row,  \* errors_in_row of palacio_group_a
    page_size,  \* page_size (sz) of the run
    page_step,  \* page_step / step of the run
    requests,   \* the page requests made so far, in order
    parser,     \* which discount derivation has run ("none" before)
    list_p,     \* the list price of a product card (NaN when it has none)
    sale_p,     \* its sale price
    discount,   \* the discount_pct derived from them
    tool,       \* which program owns the history folder ("none" outside a history)
    store,      \* the snapshot parquets persisted so far
    listing,    \* the listing (category, preset, URL) of the last run
    found,      \* the parquet the last run located as its previous snapshot
    runner,     \* which runner has sent its alerts ("none" before)
    brands,     \* ALERT_BRANDS / WATCHLIST
    discount_threshold,     \* --discount-threshold of v3
    watchlist_alerts_flag,  \* --watchlist-alerts of v3
    alert,      \* the alert mail of the run
    reports,    \* the XLSX reports under out_palacio/*/*/
    hours_back, \* hours_back of build_master
    master      \* the consolidated workbook build_master writes

diffVars == << hasPrev, prev, cur, impl, out >>

scrapeVars == << scraper, site, looping, page_idx, start, all_rows, seen_ids,
                 empty_streak, errors_in_row, page_size, page_step, requests >>

parseVars == << parser, list_p, sale_p, discount >>

storeVars == << tool, store, listing, found >>

alertVars == << runner, brands, discount_threshold, watchlist_alerts_flag, alert >>

masterVars == << reports, hours_back, master >>

vars == << diffVars, scrapeVars, parseVars, storeVars, alertVars, masterVars >>

\* no page loop is running
NoScrape ==
    /\ scraper = "none"
    /\ site = << >>
    /\ looping = FALSE
    /\ page_idx = 0
    /\ start = 0
    /\ all_rows = << >>
    /\ seen_ids = {}
    /\ empty_streak = 0
    /\ errors_in_row = 0
    /\ page_size = 0
    /\ page_step = 0
    /\ requests = << >>

\* no product card is being parsed
NoParse ==
    /\ parser = "none"
    /\ list_p = NaN
    /\ sale_p = NaN
    /\ discount = NaN

\* no parquet was located
NoFile == [prefix |-> NULL, listing |-> NULL, stamp |-> 0, snapshot |-> << >>]

\* no history folder is in use
NoStore ==
    /\ tool = "none"
    /\ store = << >>
    /\ listing = NULL
    /\ found = NoFile

\* what send_email is called with; sent is FALSE when it is not called
Mail(sent, hits_new, hits_chg) == [sent |-> sent, hits_new |-> hits_new, hits_chg |-> hits_chg]

NoMail == Mail(FALSE, << >>, << >>)

\* no runner is sending alerts
NoAlert ==
    /\ runner = "none"
    /\ brands = {}
    /\ discount_threshold = 0
    /\ watchlist_alerts_flag = FALSE
    /\ alert = NoMail

\* build_master has not run
NotBuilt == [state |-> "not run", CHANGES_ALL |-> << >>, NEW_ALL |-> << >>, REMOVED_ALL |-> << >>]

\* no consolidation is under way
NoReports ==
    /\ reports = {}
    /\ hours_back = 0
    /\ master = NotBuilt

Init ==
    /\ hasPrev \in BOOLEAN
    /\ prev \in Snapshots
    /\ (~hasPrev => prev = << >>)
    /\ cur \in Snapshots
    /\ impl = "none"
    /\ out = NoDiff
    /\ NoScrape
    /\ NoParse
    /\ NoStore
    /\ NoAlert
    /\ NoReports

\* sku = product_id in parse_tile (v3); sku is product_id or None in the Adolfo parser
SkuFollowsPid(snap) ==
    \A i \in 1..Len(snap) : snap[i].sku = NULL \/ snap[i].sku = snap[i].product_id

Ran(name, result) ==
    /\ impl = "none"
    /\ impl' = name
    /\ out' = result
    /\ UNCHANGED << hasPrev, prev, cur >>
    /\ UNCHANGED scrapeVars
    /\ UNCHANGED parseVars
    /\ UNCHANGED storeVars
    /\ UNCHANGED alertVars
    /\ UNCHANGED masterVars

SaveSnapshot == Ran("save_snapshot", save_snapshot(hasPrev, prev, cur))

ChangesMerge == Ran("_changes_merge", changes_merge(hasPrev, prev, cur))

ComputeDiffs == Ran("compute_diffs", compute_diffs(hasPrev, prev, cur))

BuildXlsxBytes == Ran("build_xlsx_bytes", build_xlsx_bytes(hasPrev, prev, cur))

RunOne ==
    /\ SkuFollowsPid(prev) /\ SkuFollowsPid(cur)
    /\ Ran("_compute_diffs", run_one(hasPrev, prev, cur))

RunJob ==
    /\ SkuFollowsPid(prev) /\ SkuFollowsPid(cur)
    /\ Ran("build_changes", run_job(hasPrev, prev, cur))

Next ==
    \/ SaveSnapshot
    \/ ChangesMerge
    \/ BuildXlsxBytes
    \/ ComputeDiffs
    \/ RunOne
    \/ RunJob

Spec == Init /\ [][Next]_vars

TypeOK ==
    /\ hasPrev \in BOOLEAN
    /\ impl \in {"none", "save_snapshot", "_changes_merge", "compute_diffs",
                 "_compute_diffs", "build_changes", "build_xlsx_bytes"}

(***************************************************************************)
(* What the claims speak of: the join keys of the inputs and of the three  *)
(* result sets, as the implementation that ran sees them.                  *)
(***************************************************************************)
Done == impl # "none"

\* the frames the implementation that ran has compared
PrevFrame == IF impl = "compute_diffs" THEN StrKey(FrameV2(prev), "product_id") ELSE Frame(prev)
CurFrame  == IF impl = "compute_diffs" THEN StrKey(FrameV2(cur), "product_id") ELSE Frame(cur)

PrevKeys == IF out.key = NULL THEN {} ELSE KeySet(PrevFrame, out.key)
CurKeys  == IF out.key = NULL THEN {} ELSE KeySet(CurFrame, out.key)

NewKeys     == { out.new_items[i][out.key] : i \in 1..Len(out.new_items) }
RemovedKeys == { out.removed_items[i][out.key] : i \in 1..Len(out.removed_items) }
ChangedKeys == { out.changes[i].key : i \in 1..Len(out.changes) }

\* unchanged is implicit: a key of both snapshots that is not reported as changed
UnchangedKeys == (PrevKeys \cap CurKeys) \ ChangedKeys

ClassesOf(k) ==
    { c \in {"new", "removed", "changed", "unchanged"} :
        \/ c = "new" /\ k \in NewKeys
        \/ c = "removed" /\ k \in RemovedKeys
        \/ c = "changed" /\ k \in ChangedKeys
        \/ c = "unchanged" /\ k \in UnchangedKeys }

\* C1: the key sets of new, removed and changed are pairwise disjoint, and every
\* join key of previous or current is in exactly one of new, removed, changed and
\* unchanged (save_snapshot, compute_diffs of v2, _changes_merge).
C1_Partition ==
    impl \in {"save_snapshot", "compute_diffs", "_changes_merge"} =>
        /\ NewKeys \cap RemovedKeys = {}
        /\ NewKeys \cap ChangedKeys = {}
        /\ RemovedKeys \cap ChangedKeys = {}
        /\ \A k \in PrevKeys \cup CurKeys : Cardinality(ClassesOf(k)) = 1

\* C2: with no previous snapshot of the category, new is every record of the
\* current snapshot, removed and changed are empty, and nothing is raised
\* (save_snapshot, run_one of v3).
C2_ColdStart ==
    (impl \in {"save_snapshot", "_compute_diffs"} /\ ~hasPrev) =>
        /\ out.new_items = Frame(cur)
        /\ out.removed_items = << >>
        /\ out.changes = << >>
        /\ ~out.raised

\* a first run whose scrape found two records
C2_Witness ==
    /\ impl = "save_snapshot"
    /\ ~hasPrev
    /\ Len(cur) = MaxLen
    /\ Len(out.new_items) = MaxLen

(***************************************************************************)
(* Pairs of records of the two frames, and whether a pair is reported.     *)
(***************************************************************************)
\* a comparison of two snapshots has been made
Compared == Done /\ hasPrev /\ out.key # NULL /\ ~out.raised

Missing(k) == k = NULL \/ k = NoneStr

PrevIdx == 1..Len(PrevFrame)
CurIdx  == 1..Len(CurFrame)

\* the old side of an entry of changes is row i of the previous frame
OldIs(e, i) ==
    IF impl = "compute_diffs"
    THEN e.old = CompareCols(PrevFrame[i], out.key)
    ELSE e.old = PrevFrame[i]

\* previous row i and current row j are reported together in changes
Flagged(i, j) ==
    \E n \in 1..Len(out.changes) :
        OldIs(out.changes[n], i) /\ out.changes[n].new = CurFrame[j]

\* previous row i and current row j carry the same, present, join key
Matched(i, j) ==
    /\ PrevFrame[i][out.key] = CurFrame[j][out.key]
    /\ ~Missing(CurFrame[j][out.key])

NumFields == {"list_price", "sale_price", "discount_pct"}

\* C3: a snapshot in which no two records carry the same key, compared with
\* itself, gives no new, no removed and no changed record, also when records
\* lack product_id, sku or a price (_changes_merge, compute_diffs of v2,
\* build_changes).
C3_SelfDiff ==
    ( /\ impl \in {"_changes_merge", "compute_diffs", "build_changes"}
      /\ hasPrev /\ prev = cur
      /\ \A i, j \in CurIdx :
            (i # j /\ out.key # NULL /\ ~Missing(CurFrame[i][out.key]))
                => CurFrame[i][out.key] # CurFrame[j][out.key] )
    => /\ out.new_items = << >>
       /\ out.removed_items = << >>
       /\ out.changes = << >>
       /\ ~out.raised

\* C4: for a matched record with a numeric field present on both sides the
\* field counts as changed iff |old - new| > 0.01; so a pair whose three
\* numeric fields are present (and whose promo is equal) is reported iff one
\* of them differs by more than 0.01 (save_snapshot, compute_diffs of v2,
\* build_changes).
C4_Tolerance ==
    (impl \in {"save_snapshot", "compute_diffs", "build_changes"} /\ Compared) =>
        \A i \in PrevIdx, j \in CurIdx :
            ( /\ Matched(i, j)
              /\ \A f \in NumFields : PrevFrame[i][f] # NaN /\ CurFrame[j][f] # NaN
              /\ PrevFrame[i].promo = CurFrame[j].promo )
            => ( Flagged(i, j) <=>
                   \E f \in NumFields :
                       Abs(PrevFrame[i][f] - CurFrame[j][f]) * MicroPerMilli > AbsTolMicro )

\* C5: a matched record with the same list_price, sale_price missing before
\* and 100.0 now, is reported as changed, sale_price among the changed fields
\* where they are reported (save_snapshot, _compute_diffs of v3, compute_diffs
\* of v2).
C5_MissingSaleTransition ==
    (impl \in {"save_snapshot", "_compute_diffs", "compute_diffs"} /\ Compared) =>
        \A i \in PrevIdx, j \in CurIdx :
            ( /\ Matched(i, j)
              /\ PrevFrame[i].list_price = CurFrame[j].list_price
              /\ PrevFrame[i].sale_price = NaN
              /\ CurFrame[j].sale_price = 100000 )
            => \E n \in 1..Len(out.changes) :
                   /\ OldIs(out.changes[n], i)
                   /\ out.changes[n].new = CurFrame[j]
                   /\ \/ out.changes[n].changed_fields = NoColumn
                      \/ \E x \in 1..Len(out.changes[n].changed_fields) :
                             out.changes[n].changed_fields[x] = "sale_price"

\* C6: for each numeric field of a matched record, missing on both sides is
\* equal, and missing on exactly one side makes the record changed, for
\* list_price and discount_pct as for sale_price (save_snapshot,
\* _changes_merge, _compute_diffs of v3).
C6_MissingNumeric ==
    (impl \in {"save_snapshot", "_changes_merge", "_compute_diffs"} /\ Compared) =>
        \A i \in PrevIdx, j \in CurIdx :
            Matched(i, j) =>
                /\ (\E f \in NumFields : (PrevFrame[i][f] = NaN) # (CurFrame[j][f] = NaN))
                       => Flagged(i, j)
                /\ (\A f \in NumFields : PrevFrame[i][f] = CurFrame[j][f])
                       => ~Flagged(i, j)

\* some record of the snapshot has a non-null value in the column
HasCol(snap, col) == \E i \in 1..Len(snap) : snap[i][col] # NULL

\* the key the resolver of the specification selects
ResolvedKey ==
    IF HasCol(prev, "product_id") /\ HasCol(cur, "product_id") THEN "product_id"
    ELSE IF HasCol(prev, "sku") /\ HasCol(cur, "sku") THEN "sku"
    ELSE "enlace"

\* C7: the join key is product_id iff both snapshots have a record with a
\* non-null product_id, otherwise sku iff both have a record with a non-null
\* sku, otherwise url; one field, used for both snapshots (save_snapshot,
\* _compute_diffs of v3, compute_diffs of v2).
C7_KeyResolution ==
    ( /\ impl \in {"save_snapshot", "_compute_diffs", "compute_diffs"}
      /\ Compared /\ prev # << >> /\ cur # << >> )
    => out.key = ResolvedKey

Urls(frame) == { frame[i].enlace : i \in 1..Len(frame) }

\* C8: with product_id null on every record of both snapshots and url
\* populated, records are matched by url: new and removed are the urls of one
\* side only, and a record whose sale_price went from 50 to 40 under the same
\* url is in changed under its url, in neither new nor removed (save_snapshot,
\* compute_diffs of v2, _compute_diffs of v3).
C8_UrlFallback ==
    ( /\ impl \in {"save_snapshot", "compute_diffs", "_compute_diffs"}
      /\ Compared /\ prev # << >> /\ cur # << >>
      /\ ~HasCol(prev, "product_id") /\ ~HasCol(cur, "product_id") )
    => /\ Urls(out.new_items) = Urls(CurFrame) \ Urls(PrevFrame)
       /\ Urls(out.removed_items) = Urls(PrevFrame) \ Urls(CurFrame)
       /\ \A i \in PrevIdx, j \in CurIdx :
            ( /\ PrevFrame[i].enlace = CurFrame[j].enlace
              /\ PrevFrame[i].sale_price = 50000
              /\ CurFrame[j].sale_price = 40000 )
            => \E n \in 1..Len(out.changes) :
                   /\ out.changes[n].key = CurFrame[j].enlace
                   /\ out.changes[n].new = CurFrame[j]
                   /\ OldIs(out.changes[n], i)

InSeq(x, seq) == \E n \in 1..Len(seq) : seq[n] = x

\* C9: a record whose join key is missing is never joined: it is in removed
\* when it is a previous record and in new when it is a current record, it is
\* on neither side of an entry of changed, and nothing is raised
\* (save_snapshot, compute_diffs of v2; stated for the comparisons whose key
\* is the one the resolver selects).
C9_MissingKeyNeverMatches ==
    ( /\ impl \in {"save_snapshot", "compute_diffs"}
      /\ Compared /\ prev # << >> /\ cur # << >>
      /\ out.key = ResolvedKey )
    =>  /\ ~out.raised
        /\ \A i \in PrevIdx :
              Missing(PrevFrame[i][out.key]) =>
                  /\ InSeq(PrevFrame[i], out.removed_items)
                  /\ \A n \in 1..Len(out.changes) : ~OldIs(out.changes[n], i)
        /\ \A j \in CurIdx :
              Missing(CurFrame[j][out.key]) =>
                  /\ InSeq(CurFrame[j], out.new_items)
                  /\ \A n \in 1..Len(out.changes) : out.changes[n].new # CurFrame[j]

\* first record of the frame with the key value
FirstOf(frame, k) ==
    frame[CHOOSE i \in 1..Len(frame) :
              /\ frame[i][out.key] = k
              /\ \A j \in 1..(i - 1) : frame[j][out.key] # k]

\* C10: when several records of a snapshot carry the same join key, only the
\* first-seen record of the key is used: a (present) key has at most one entry
\* in new, in removed and in changed, and the entry is built from the first
\* record (_changes_merge, compute_diffs of v2, _compute_diffs of v3).
C10_FirstWins ==
    (impl \in {"_changes_merge", "compute_diffs", "_compute_diffs"} /\ Compared) =>
        /\ \A k \in NewKeys \ {NULL, NoneStr} :
              /\ Len(SelectSeq(out.new_items, LAMBDA r : r[out.key] = k)) = 1
              /\ InSeq(FirstOf(CurFrame, k), out.new_items)
        /\ \A k \in RemovedKeys \ {NULL, NoneStr} :
              /\ Len(SelectSeq(out.removed_items, LAMBDA r : r[out.key] = k)) = 1
              /\ InSeq(FirstOf(PrevFrame, k), out.removed_items)
        /\ \A k \in ChangedKeys \ {NULL, NoneStr} :
              /\ Len(SelectSeq(out.changes, LAMBDA e : e.key = k)) = 1
              /\ \E n \in 1..Len(out.changes) :
                     out.changes[n].new = FirstOf(CurFrame, k)

(***************************************************************************)
(* Duplicate join keys within one frame.                                   *)
(***************************************************************************)
\* some key value, missing or not, is carried by two rows of the frame
HasDuplicateKey(frame, key) == ~UniqueIndex(frame, key)

\* C11: when a snapshot holds two records with the same join key, the
\* comparison does not raise and uses the first record of the key only: the
\* key has one entry at most in new, in removed and in changed
\* (build_changes under run_job, save_snapshot).
C11_DuplicatesDoNotRaise ==
    ( /\ impl \in {"build_changes", "save_snapshot"}
      /\ hasPrev /\ out.key # NULL
      /\ HasDuplicateKey(PrevFrame, out.key) \/ HasDuplicateKey(CurFrame, out.key) ) =>
        /\ ~out.raised
        /\ \A k \in NewKeys \ {NULL} :
              Len(SelectSeq(out.new_items, LAMBDA r : r[out.key] = k)) = 1
        /\ \A k \in RemovedKeys \ {NULL} :
              Len(SelectSeq(out.removed_items, LAMBDA r : r[out.key] = k)) = 1
        /\ \A k \in ChangedKeys \ {NULL} :
              Len(SelectSeq(out.changes, LAMBDA e : e.key = k)) = 1

(***************************************************************************)
(* The page loops: run_single_category (palacio_category_snapshot.py and  *)
(* its ramonly variant), scrape_category (palacio_group_a.py),             *)
(* scrape_category (v2) and run_job (adolfodominguez_scraper.py).  A page  *)
(* of the site is either a failed fetch or the product cards it shows.     *)
(* Rows are written with the field names of palacio_category_snapshot.py:  *)
(* pid / url / title of palacio_group_a are product_id / enlace / name.    *)
(***************************************************************************)
\* max_pages of a run
MaxPages == 2
\* most product cards on one page
MaxPageLen == 2
\* STOP_AFTER_EMPTY of palacio_category_snapshot.py
STOP_AFTER_EMPTY == 1
\* default of stop_after_empty (v2)
StopAfterEmptyV2 == 1
\* max_consecutive_errors of palacio_group_a
max_consecutive_errors == 3
\* STOP_AFTER_EMPTY of adolfodominguez_scraper.py
STOP_AFTER_EMPTY_adolfo == 2

\* the page loops
Scrapers ==
    { "run_single_category", "palacio_group_a", "scrape_category",
      "run_single_category_ramonly", "run_job" }

\* default_page_size and default_page_step of the entries of CATEGORIES
CATEGORIES ==
    { [default_page_size |-> 200, default_page_step |-> 201],
      [default_page_size |-> 200, default_page_step |-> 200] }

\* the page size and step a loop runs with: an entry of CATEGORIES, the
\* defaults of scrape_category (palacio_group_a), or one numbered page
Configs(s) ==
    IF s \in {"run_single_category", "run_single_category_ramonly"} THEN CATEGORIES
    ELSE IF s = "palacio_group_a"
         THEN { [default_page_size |-> 200, default_page_step |-> 200] }
         ELSE { [default_page_size |-> 1, default_page_step |-> 1] }

\* the request for the page at start with sz products
Request(st, sz) == [start |-> st, sz |-> sz]

\* a card with neither product id nor link
NoKeyTile == Tile(NULL, NULL, NULL, 100000, 50000, "n1", NULL)

\* the cards a page can show: p1 twice with different names, u1 twice with
\* different prices, and a card without key
ScrapeTiles == { Tiles[1], Tiles[7], Tiles[10], Tiles[11], NoKeyTile }

FailedPage == [ok |-> FALSE, tiles |-> << >>]

EmptyPage == [ok |-> TRUE, tiles |-> << >>]

Pages ==
    { FailedPage }
    \cup { [ok |-> TRUE, tiles |-> t] :
              t \in UNION { [1..n -> ScrapeTiles] : n \in 0..MaxPageLen } }

Sites == [1..MaxPages -> Pages]

\* the answer to the request for page i (1-based); past the last page the
\* listing is empty
PageAt(i) == IF i \in 1..Len(site) THEN site[i] ELSE EmptyPage

\* for r in page_rows: key = product_id or enlace;
\*   if key and key not in seen_ids: seen_ids.add(key); new_rows.append(r)
RECURSIVE DedupRows(_, _)
DedupRows(rows, seen) ==
    IF rows = << >> THEN << >>
    ELSE LET r == Head(rows)
             key == DedupKey(r)
         IN  IF key # NULL /\ key \notin seen
             THEN << r >> \o DedupRows(Tail(rows), seen \cup {key})
             ELSE DedupRows(Tail(rows), seen)

RowKeys(rows) == { DedupKey(rows[i]) : i \in 1..Len(rows) }

\* cleaned of parse_listing: rows with neither title nor url are dropped
Cleaned(rows) == SelectSeq(rows, LAMBDA r : ~(r.name = NULL /\ r.enlace = NULL))

ScrapeInit ==
    /\ hasPrev = FALSE /\ prev = << >> /\ cur = << >>
    /\ impl = "none" /\ out = NoDiff
    /\ scraper \in Scrapers
    /\ site \in Sites
    /\ \E cfg \in Configs(scraper) :
          /\ page_size = cfg.default_page_size
          /\ page_step = cfg.default_page_step
    /\ requests = << >>
    /\ looping = TRUE
    /\ page_idx = 0
    /\ start = 0
    /\ all_rows = << >>
    /\ seen_ids = {}
    /\ empty_streak = 0
    /\ errors_in_row = 0
    /\ NoParse
    /\ NoStore
    /\ NoAlert
    /\ NoReports

\* if empty_streak > STOP_AFTER_EMPTY: break
StopLater(streak, limit) == streak > limit

\* if empty_streak >= STOP_AFTER_EMPTY: break
Stop(streak, limit) == streak >= limit

\* one iteration of "while page_idx < max_pages" of run_single_category
RunSingleCategoryPage ==
    /\ scraper = "run_single_category" /\ looping /\ page_idx < MaxPages
    /\ LET pg       == PageAt(start + 1)
           new_rows == DedupRows(pg.tiles, seen_ids)
           bad      == ~pg.ok \/ Len(pg.tiles) = 0 \/ Len(new_rows) = 0
           streak   == IF bad THEN empty_streak + 1 ELSE 0
           stop     == bad /\ Stop(streak, STOP_AFTER_EMPTY)
       IN  /\ requests' = Append(requests, Request(start * page_step, page_size))
           /\ seen_ids' = seen_ids \cup RowKeys(new_rows)
           /\ empty_streak' = streak
           /\ all_rows' = IF bad THEN all_rows ELSE all_rows \o new_rows
           /\ page_idx' = IF stop THEN page_idx ELSE page_idx + 1
           /\ start' = IF stop THEN start ELSE start + 1
           /\ looping' = (~stop /\ page_idx + 1 < MaxPages)
    /\ UNCHANGED << scraper, site, errors_in_row, page_size, page_step >>
    /\ UNCHANGED diffVars
    /\ UNCHANGED parseVars
    /\ UNCHANGED storeVars
    /\ UNCHANGED alertVars
    /\ UNCHANGED masterVars

\* one iteration of "for page in range(1, max_pages + 1)" of scrape_category (v2);
\* a page that does not load shows no article
ScrapeCategoryV2Page ==
    /\ scraper = "scrape_category" /\ looping /\ page_idx < MaxPages
    /\ LET pg        == PageAt(start + 1)
           page_rows == DedupRows(pg.tiles, seen_ids)
           streak    == IF page_rows = << >> THEN empty_streak + 1 ELSE 0
           stop      == Stop(streak, StopAfterEmptyV2)
       IN  /\ requests' = Append(requests, Request(start + 1, page_size))
           /\ seen_ids' = seen_ids \cup RowKeys(page_rows)
           /\ empty_streak' = streak
           /\ all_rows' = all_rows \o page_rows
           /\ page_idx' = page_idx + 1
           /\ start' = start + 1
           /\ looping' = (~stop /\ page_idx + 1 < MaxPages)
    /\ UNCHANGED << scraper, site, errors_in_row, page_size, page_step >>
    /\ UNCHANGED diffVars
    /\ UNCHANGED parseVars
    /\ UNCHANGED storeVars
    /\ UNCHANGED alertVars
    /\ UNCHANGED masterVars

\* one iteration of "for page in range(max_pages)" of scrape_category
\* (palacio_group_a), with its look at the next page after an empty one
ScrapeCategoryGroupAPage ==
    /\ scraper = "palacio_group_a" /\ looping /\ page_idx < MaxPages
    /\ LET pg        == PageAt(start + 1)
           rows      == Cleaned(pg.tiles)
           nxt       == PageAt(start + 2)
           next_rows == Cleaned(nxt.tiles)
           errors    == IF pg.ok THEN 0 ELSE errors_in_row + 1
           stop      == IF ~pg.ok THEN errors >= max_consecutive_errors
                        ELSE rows = << >> /\ (~nxt.ok \/ next_rows = << >>)
           skip      == pg.ok /\ rows = << >> /\ ~stop
       IN  /\ requests' =
                 requests \o << Request(start * page_step, page_size) >>
                 \o (IF pg.ok /\ rows = << >>
                     THEN << Request((start + 1) * page_step, page_size) >>
                     ELSE << >>)
           /\ errors_in_row' = errors
           /\ all_rows' = IF ~pg.ok THEN all_rows
                          ELSE IF skip THEN all_rows \o rows \o next_rows
                          ELSE all_rows \o rows
           /\ start' = IF stop THEN start ELSE IF skip THEN start + 2 ELSE start + 1
           /\ page_idx' = page_idx + 1
           /\ looping' = (~stop /\ page_idx + 1 < MaxPages)
    /\ UNCHANGED << scraper, site, seen_ids, empty_streak, page_size, page_step >>
    /\ UNCHANGED diffVars
    /\ UNCHANGED parseVars
    /\ UNCHANGED storeVars
    /\ UNCHANGED alertVars
    /\ UNCHANGED masterVars

\* try_sizes of _fetch_with_fallback: page_size first, then 200, 120, 80
try_sizes(sz) == << sz >> \o SelectSeq(<< 200, 120, 80 >>, LAMBDA s : s # sz)

\* one iteration of "while page_idx < max_pages" of run_single_category
\* (palacio_category_snapshot_ramonly.py): the page is fetched with the first
\* size of try_sizes the site does not answer with a 52x error
RunSingleCategoryRamonlyPage ==
    /\ scraper = "run_single_category_ramonly" /\ looping /\ page_idx < MaxPages
    /\ \E i \in 1..Len(try_sizes(page_size)) :
         LET pg       == PageAt(start + 1)
             used_sz  == IF pg.ok THEN try_sizes(page_size)[i] ELSE page_size
             new_rows == DedupRows(pg.tiles, seen_ids)
             bad      == ~pg.ok \/ Len(pg.tiles) = 0 \/ Len(new_rows) = 0
             streak   == IF bad THEN empty_streak + 1 ELSE 0
             stop     == bad /\ Stop(streak, STOP_AFTER_EMPTY)
         IN  /\ requests' = Append(requests, Request(start * page_step, used_sz))
             /\ seen_ids' = seen_ids \cup RowKeys(new_rows)
             /\ empty_streak' = streak
             /\ all_rows' = IF bad THEN all_rows ELSE all_rows \o new_rows
             /\ page_idx' = IF stop THEN page_idx ELSE page_idx + 1
             /\ start' = IF stop THEN start ELSE start + 1
             /\ looping' = (~stop /\ page_idx + 1 < MaxPages)
    /\ UNCHANGED << scraper, site, errors_in_row, page_size, page_step >>
    /\ UNCHANGED diffVars
    /\ UNCHANGED parseVars
    /\ UNCHANGED storeVars
    /\ UNCHANGED alertVars
    /\ UNCHANGED masterVars

\* one iteration of "for idx, page_num in enumerate(range(page_start,
\* page_start + max_pages))" of run_job (adolfodominguez_scraper.py); fetch_page
\* is not guarded, so a failed fetch raises out of run_job
RunJobPage ==
    /\ scraper = "run_job" /\ looping /\ page_idx < MaxPages
    /\ LET pg       == PageAt(start + 1)
           new_rows == DedupRows(pg.tiles, seen_ids)
           bad      == Len(pg.tiles) = 0 \/ Len(new_rows) = 0
           streak   == IF bad THEN empty_streak + 1 ELSE 0
           stop     == bad /\ Stop(streak, STOP_AFTER_EMPTY_adolfo)
       IN  /\ requests' = Append(requests, Request(start + 1, page_size))
           /\ page_idx' = page_idx + 1
           /\ start' = start + 1
           /\ IF ~pg.ok
              THEN /\ looping' = FALSE
                   /\ UNCHANGED << seen_ids, empty_streak, all_rows >>
              ELSE /\ seen_ids' = seen_ids \cup RowKeys(new_rows)
                   /\ empty_streak' = streak
                   /\ all_rows' = IF bad THEN all_rows ELSE all_rows \o new_rows
                   /\ looping' = (~stop /\ page_idx + 1 < MaxPages)
    /\ UNCHANGED << scraper, site, errors_in_row, page_size, page_step >>
    /\ UNCHANGED diffVars
    /\ UNCHANGED parseVars
    /\ UNCHANGED storeVars
    /\ UNCHANGED alertVars
    /\ UNCHANGED masterVars

ScrapeNext ==
    \/ RunSingleCategoryPage
    \/ ScrapeCategoryV2Page
    \/ ScrapeCategoryGroupAPage
    \/ RunSingleCategoryRamonlyPage
    \/ RunJobPage

ScrapeSpec == ScrapeInit /\ [][ScrapeNext]_vars

\* the first card with the key among the pages, in the order of the site
FirstInSite(key) ==
    LET cards == Flatten([i \in 1..Len(site) |-> site[i].tiles])
    IN  cards[CHOOSE i \in 1..Len(cards) :
                  /\ DedupKey(cards[i]) = key
                  /\ \A j \in 1..(i - 1) : DedupKey(cards[j]) # key]

\* C12: the records gathered for one snapshot are de-duplicated by
\* product_id-or-url: no two of them have the same key, and the record kept
\* for a key is its first occurrence in the traversal
\* (run_single_category, scrape_category of palacio_group_a and of v2).
C12_DedupFirstWins ==
    /\ \A i, j \in 1..Len(all_rows) :
          (i # j /\ DedupKey(all_rows[i]) # NULL) =>
              DedupKey(all_rows[i]) # DedupKey(all_rows[j])
    /\ \A i \in 1..Len(all_rows) :
          DedupKey(all_rows[i]) # NULL =>
              all_rows[i] = FirstInSite(DedupKey(all_rows[i]))

(***************************************************************************)
(* Discount derivation, one product card at a time.  parse_price strips    *)
(* everything but digits, dot and comma, so a parsed price is never        *)
(* negative; it is NaN here when the card has none.                        *)
(***************************************************************************)
\* the prices a card can show: none, 0.00, 1.00, 3.00, 75.00, 99.99, 100.00
Prices == { NaN, 0, 1000, 3000, 75000, 99990, 100000 }

\* parse_tile (palacio_manual_runner_selenium.py): if list_p and sale_p and sale_p < list_p
DiscountParseTile(lp, sp) ==
    IF lp # NaN /\ lp # 0 /\ sp # NaN /\ sp # 0 /\ sp < lp THEN PctRounded(lp, sp) ELSE NaN

DiscountInit ==
    /\ hasPrev = FALSE /\ prev = << >> /\ cur = << >>
    /\ impl = "none" /\ out = NoDiff
    /\ NoScrape
    /\ parser = "none"
    /\ list_p \in Prices
    /\ sale_p \in Prices
    /\ discount = NaN
    /\ NoStore
    /\ NoAlert
    /\ NoReports

Derived(name, pct) ==
    /\ parser = "none"
    /\ parser' = name
    /\ discount' = pct
    /\ UNCHANGED << list_p, sale_p >>
    /\ UNCHANGED diffVars
    /\ UNCHANGED scrapeVars
    /\ UNCHANGED storeVars
    /\ UNCHANGED alertVars
    /\ UNCHANGED masterVars

ParseProductsFromHtml == Derived("parse_products_from_html", DiscountPct(list_p, sale_p))

ParseTile == Derived("parse_tile", DiscountParseTile(list_p, sale_p))

PctDiscount == Derived("_pct_discount", PctDiscountV2(list_p, sale_p))

DiscountFromPrices == Derived("discount_from_prices", DiscountPct(list_p, sale_p))

DiscountNext ==
    \/ ParseProductsFromHtml
    \/ ParseTile
    \/ PctDiscount
    \/ DiscountFromPrices

DiscountSpec == DiscountInit /\ [][DiscountNext]_vars

\* C13: list_price 100 and sale_price 75 give discount_pct 25.0; list_price
\* 100 and sale_price 100 give no discount_pct at all, not zero
\* (parse_products_from_html, _pct_discount of v2, discount_from_prices).
C13_DiscountExamples ==
    parser \in {"parse_products_from_html", "_pct_discount", "discount_from_prices"} =>
        /\ (list_p = 100000 /\ sale_p = 75000) => discount = 25000
        /\ (list_p = 100000 /\ sale_p = 100000) => discount = NaN

\* C14: discount_pct is round((1 - sale_price / list_price) * 100, 2) when
\* both prices are present and positive and sale_price < list_price, and is
\* missing otherwise (parse_products_from_html, parse_tile of
\* palacio_manual_runner_selenium.py, _pct_discount of v2).
C14_DiscountRule ==
    parser \in {"parse_products_from_html", "parse_tile", "_pct_discount"} =>
        discount = IF /\ list_p # NaN /\ sale_p # NaN
                      /\ list_p > 0 /\ sale_p > 0
                      /\ sale_p < list_p
                   THEN PctRounded(list_p, sale_p)
                   ELSE NaN

(***************************************************************************)
(* What a comparison reports about the fields of a matched record.         *)
(***************************************************************************)
\* C15: a string field is changed iff its values differ: a matched record
\* whose name differs between the two snapshots, its prices being the same,
\* is reported in changed
\* (save_snapshot, compute_diffs of v2, _compute_diffs of v3).
C15_StringFields ==
    (impl \in {"save_snapshot", "compute_diffs", "_compute_diffs"} /\ Compared) =>
        \A i \in PrevIdx, j \in CurIdx :
            ( /\ Matched(i, j)
              /\ PrevFrame[i].name # CurFrame[j].name
              /\ PrevFrame[i].list_price = CurFrame[j].list_price
              /\ PrevFrame[i].sale_price = CurFrame[j].sale_price )
            => Flagged(i, j)

\* the names of the compared fields whose values differ in an entry of changes
DifferingFields(e) ==
    { f \in NumFields \cup {"promo", "name"} : e.old[f] # e.new[f] }

\* C16: every entry of changed carries the set of the names of the fields
\* that changed, not only the fact that it changed: the set is there, is not
\* empty, and names only fields whose values differ
\* (compute_diffs of v2, _changes_merge).
C16_ChangedFieldNames ==
    (impl \in {"compute_diffs", "_changes_merge"} /\ Compared) =>
        \A n \in 1..Len(out.changes) :
            LET e == out.changes[n]
            IN  /\ e.changed_fields # NoColumn
                /\ e.changed_fields # << >>
                /\ \A x \in 1..Len(e.changed_fields) :
                       e.changed_fields[x] \in DifferingFields(e)

(***************************************************************************)
(* new and removed as sets of records.                                     *)
(***************************************************************************)
\* the join key of the run, product_id where no comparison was made
KeyOfRun == IF out.key = NULL THEN "product_id" ELSE out.key

\* C17: removed is the records of the previous snapshot whose key is absent
\* from the current snapshot, each as the previous record
\* (compute_diffs of v2, build_xlsx_bytes, run_job with build_changes).
C17_Removed ==
    ( /\ impl \in {"compute_diffs", "build_xlsx_bytes", "build_changes"}
      /\ hasPrev /\ ~out.raised ) =>
        /\ \A i \in PrevIdx :
              PrevFrame[i][KeyOfRun] \notin KeySet(CurFrame, KeyOfRun)
                  <=> InSeq(PrevFrame[i], out.removed_items)
        /\ \A n \in 1..Len(out.removed_items) : InSeq(out.removed_items[n], PrevFrame)

\* C18: new is the keys of the current snapshot that are absent from the
\* previous snapshot, each with a current record of that key
\* (save_snapshot, compute_diffs of v2, _compute_diffs of v3 under run_one).
C18_New ==
    ( /\ impl \in {"save_snapshot", "compute_diffs", "_compute_diffs"}
      /\ ~out.raised ) =>
        /\ \A k \in KeySet(CurFrame, KeyOfRun) :
              k \notin KeySet(PrevFrame, KeyOfRun) <=> k \in NewKeys
        /\ NewKeys \subseteq KeySet(CurFrame, KeyOfRun)
        /\ \A n \in 1..Len(out.new_items) : InSeq(out.new_items[n], CurFrame)

\* a comparison with a previous snapshot in which one current record is new
\* and the other is not
C18_Witness ==
    /\ impl = "_compute_diffs"
    /\ hasPrev /\ prev # << >>
    /\ Len(cur) = 2
    /\ Len(out.new_items) = 1
    /\ out.new_items[1] = CurFrame[2]

(***************************************************************************)
(* The history of snapshots: every run locates the latest parquet whose    *)
(* name starts with its prefix, compares, and persists the current scrape  *)
(* under the same prefix with a fresh stamp.  A stamp is the time of the   *)
(* write: %Y%m%d_%H%M%S in the file name (and %Y-%m in the month folder),  *)
(* or st_mtime for v2; both order the files as the writes happened.        *)
(***************************************************************************)
\* most runs over one history folder
MaxRuns == 3

\* the categories / presets / jobs of the configuration tables
Presets == { "hombre", "mujer" }

\* the URLs a run of v2 or v3 can be given: a preset URL and two searches
\* (https://www.elpalaciodehierro.com/buscar?q=...)
ListingUrls == { "hombre", "buscar?q=a", "buscar?q=b" }

\* urlparse(base_url).path
PathOf(url) == IF url \in { "buscar?q=a", "buscar?q=b" } THEN "buscar" ELSE url

\* the scrapes of a run
StoreSnapshots == { << >>, << Tiles[1] >>, << Tiles[9] >> }

Tools ==
    { "palacio_category_snapshot", "palacio_manual_runner", "adolfodominguez_scraper",
      "v2", "v3_presets", "v3_urls" }

ListingsOf(t) == IF t \in { "v2", "v3_urls" } THEN ListingUrls ELSE Presets

\* the prefix of the file names of a listing: cfg["prefix"] / PRESETS[k]["prefix"]
\* (one per entry of the table), _slug(urlparse(base_url).path) in v2, and
\* "palacio_manual" for every URL of --urls in v3
PrefixOf(t, l) ==
    CASE t = "v3_urls" -> "palacio_manual"
      [] t = "v2"      -> PathOf(l)
      [] OTHER         -> l

\* sorted(glob(...{prefix}_snapshot_*.parquet))[-1], or None
Latest(prefix) ==
    LET files == SelectSeq(store, LAMBDA f : f.prefix = prefix)
    IN  IF files = << >> THEN NoFile
        ELSE files[CHOOSE i \in 1..Len(files) :
                       \A j \in 1..Len(files) : files[j].stamp <= files[i].stamp]

ImplOf(t) ==
    CASE t = "palacio_category_snapshot" -> "save_snapshot"
      [] t = "palacio_manual_runner"     -> "_changes_merge"
      [] t = "adolfodominguez_scraper"   -> "build_changes"
      [] t = "v2"                        -> "compute_diffs"
      [] OTHER                           -> "_compute_diffs"

\* a comparison that remembers what it has reported: a record it reported as
\* new in its last call is not reported again
DiffRemembering(t, has, prevSnap, curSnap) ==
    LET r == CASE t = "palacio_category_snapshot" -> save_snapshot(has, prevSnap, curSnap)
               [] t = "palacio_manual_runner"     -> changes_merge(has, prevSnap, curSnap)
               [] t = "adolfodominguez_scraper"   -> run_job(has, prevSnap, curSnap)
               [] t = "v2"                        -> compute_diffs(has, prevSnap, curSnap)
               [] OTHER                           -> run_one(has, prevSnap, curSnap)
    IN  [r EXCEPT !.new_items =
            SelectSeq(@, LAMBDA x : \A n \in 1..Len(out.new_items) : out.new_items[n] # x)]

\* the comparison a program makes between the located snapshot and the scrape
DiffOf(t, has, prevSnap, curSnap) ==
    CASE t = "palacio_category_snapshot" -> save_snapshot(has, prevSnap, curSnap)
      [] t = "palacio_manual_runner"     -> changes_merge(has, prevSnap, curSnap)
      [] t = "adolfodominguez_scraper"   -> run_job(has, prevSnap, curSnap)
      [] t = "v2"                        -> compute_diffs(has, prevSnap, curSnap)
      [] OTHER                           -> run_one(has, prevSnap, curSnap)

StoreInit ==
    /\ hasPrev = FALSE /\ prev = << >> /\ cur = << >>
    /\ impl = "none" /\ out = NoDiff
    /\ NoScrape
    /\ NoParse
    /\ tool \in Tools
    /\ store = << >>
    /\ listing = NULL
    /\ found = NoFile
    /\ NoAlert
    /\ NoReports

\* the lookup made once the parquet of the run is in the folder: it finds that parquet
LocateAfterPersist(t, l, snap) ==
    [prefix |-> PrefixOf(t, l), listing |-> l, stamp |-> Len(store) + 1, snapshot |-> snap]

\* the lookup of the previous parquet, made before the run writes its own
LocatePrevious(t, l, snap) == Latest(PrefixOf(t, l))

\* the parquet is written only for a scrape with records
PersistRecords(t, l, snap) ==
    IF snap = << >> THEN store
    ELSE Append(store, [prefix |-> PrefixOf(t, l), listing |-> l,
                        stamp |-> Len(store) + 1, snapshot |-> snap])

\* df.to_parquet(...): the scrape is written under the prefix of the listing
\* with a fresh stamp, whatever it holds
Persist(t, l, snap) ==
    Append(store, [prefix |-> PrefixOf(t, l), listing |-> l,
                   stamp |-> Len(store) + 1, snapshot |-> snap])

\* one run of program t over listing l whose scrape gave snap: locate the
\* previous parquet, compare, persist the scrape (a raised exception ends
\* the run before anything is written)
RunTool(t, l, snap) ==
    /\ tool = t
    /\ Len(store) < MaxRuns
    /\ LET file   == LocatePrevious(t, l, snap)
           has    == file # NoFile
           result == DiffOf(t, has, file.snapshot, snap)
       IN  /\ found' = file
           /\ hasPrev' = has
           /\ prev' = file.snapshot
           /\ cur' = snap
           /\ impl' = ImplOf(t)
           /\ out' = result
           /\ store' = IF result.raised THEN store ELSE Persist(t, l, snap)
    /\ listing' = l
    /\ UNCHANGED tool
    /\ UNCHANGED scrapeVars
    /\ UNCHANGED parseVars
    /\ UNCHANGED alertVars
    /\ UNCHANGED masterVars

RunCategorySnapshot ==
    \E l \in Presets, snap \in StoreSnapshots : RunTool("palacio_category_snapshot", l, snap)

RunManualRunner ==
    \E l \in Presets, snap \in StoreSnapshots : RunTool("palacio_manual_runner", l, snap)

RunAdolfo ==
    \E l \in Presets, snap \in StoreSnapshots : RunTool("adolfodominguez_scraper", l, snap)

RunV2 ==
    \E l \in ListingUrls, snap \in StoreSnapshots : RunTool("v2", l, snap)

RunV3Presets ==
    \E l \in Presets, snap \in StoreSnapshots : RunTool("v3_presets", l, snap)

RunV3Urls ==
    \E l \in ListingUrls, snap \in StoreSnapshots : RunTool("v3_urls", l, snap)

StoreNext ==
    \/ RunCategorySnapshot
    \/ RunManualRunner
    \/ RunAdolfo
    \/ RunV2
    \/ RunV3Presets
    \/ RunV3Urls

StoreSpec == StoreInit /\ [][StoreNext]_vars

EarlierOfListing ==
    SelectSeq(SubSeq(store, 1, Len(store) - 1), LAMBDA f : f.listing = listing)

\* C20: the lookup of the previous snapshot returns the snapshot persisted
\* most recently for the category of the run, and nothing when none has been
\* persisted for that category yet
\* (main of v3, main of v2, latest_previous_parquet of palacio_category_snapshot).
C20_LatestOfCategory ==
    ( /\ tool \in {"v3_presets", "v3_urls", "v2", "palacio_category_snapshot"}
      /\ store # << >> ) =>
        IF EarlierOfListing = << >>
        THEN found = NoFile /\ ~hasPrev
        ELSE /\ found = EarlierOfListing[Len(EarlierOfListing)]
             /\ hasPrev
             /\ prev = found.snapshot

(***************************************************************************)
(* Alert mails.  A brand or a name is a text, a sequence of characters, so *)
(* that lower(), casefold() and the substring test are computed.  A run    *)
(* compares the scrape with the previous parquet and hands NEW and CHANGES *)
(* to the filters; Mail(TRUE, ...) is the call of send_email (which itself *)
(* sends nothing when the EMAIL_* settings are incomplete).                *)
(***************************************************************************)
\* str.lower / str.casefold of one character
LowerChar(c) ==
    CASE c = "L" -> "l"
      [] c = "G" -> "g"
      [] c = "H" -> "h"
      [] c = "P" -> "p"
      [] c = "T" -> "t"
      [] c = "V" -> "v"
      [] OTHER   -> c

Lower(txt) == [i \in 1..Len(txt) |-> LowerChar(txt[i])]

\* b in txt
Contains(b, txt) ==
    \E i \in 1..(Len(txt) - Len(b) + 1) : SubSeq(txt, i, i + Len(b) - 1) = b

\* the entries the environment can list: "LG", "hp"
RawBrands == { << "L", "G" >>, << "h", "p" >> }

\* ALERT_BRANDS = [b.lower() for b in _split_list(...)]
ALERT_BRANDS == { Lower(b) : b \in brands }

\* WATCHLIST = load_watchlist_brands(): the entries as written
WATCHLIST == brands

\* a product card with its brand
BrandCard(pid, lp, sp, name, brand) ==
    [Tile(pid, pid, pid, lp, sp, name, NULL) EXCEPT !.brand = brand]

AlertCards ==
    << BrandCard("p1", 100000, 50000, << "t", "v" >>, << "L", "G" >>),              \* 1
       BrandCard("p1", 100000, 40000, << "t", "v" >>, << "L", "G" >>),              \* 2  50 -> 40
       BrandCard("p1", 100000, 100000, << "t", "v" >>, << "L", "G" >>),             \* 3  no discount
       BrandCard("p1", 100000, 40000, << "t", "v" >>, NoText),                      \* 4  brand lost
       BrandCard("p2", 100000, 75000, << "T", "V", " ", "L", "G" >>, NoText),       \* 5  brand in the name
       BrandCard("p2", 100000, 75000, << "t", "v" >>, << "H", "P" >>),              \* 6
       BrandCard("p3", 100000, 50000, << "t", "v" >>, << "L", "G", "x" >>),         \* 7  LGx
       BrandCard("p3", 100000, NaN, << "t", "v" >>, << "l", "g" >>) >>              \* 8  no sale price

RECURSIVE SeqOfCards(_)
SeqOfCards(S) ==
    IF S = {} THEN << >>
    ELSE LET m == CHOOSE i \in S : \A j \in S : i <= j
         IN  << AlertCards[m] >> \o SeqOfCards(S \ {m})

\* the snapshots of the alert runs: de-duplicated cards, in site order
AlertSnapshots ==
    { SeqOfCards(S) : S \in { T \in SUBSET (1..Len(AlertCards)) :
          /\ Cardinality(T) <= MaxLen
          /\ \A i, j \in T : i # j => AlertCards[i].product_id # AlertCards[j].product_id } }

\* the thresholds tried: 0, 25 and the default 51 percent
Thresholds == { 0, 25000, 51000 }

AlertInit ==
    /\ hasPrev \in BOOLEAN
    /\ prev \in AlertSnapshots
    /\ (~hasPrev => prev = << >>)
    /\ cur \in AlertSnapshots
    /\ impl = "none"
    /\ out = NoDiff
    /\ NoScrape
    /\ NoParse
    /\ NoStore
    /\ runner = "none"
    /\ brands \in SUBSET RawBrands
    /\ discount_threshold \in Thresholds
    /\ watchlist_alerts_flag \in BOOLEAN
    /\ alert = NoMail
    /\ NoReports

\* fillna(0) of a numeric column
FillZero(x) == IF x = NaN THEN 0 ELSE x

\* _brand_match / _brand_hit
brand_match(s) == ALERT_BRANDS # {} /\ \E b \in ALERT_BRANDS : Contains(b, Lower(s))

\* the same filter without the discount mask f
filter_hits_new_any_price(df_new) ==
    SelectSeq(df_new, LAMBDA r : brand_match(r.brand) \/ brand_match(r.name))

\* _filter_hits_new: df_new.loc[f & in_brand]
filter_hits_new(df_new) ==
    SelectSeq(df_new, LAMBDA r :
        /\ FillZero(r.discount_pct) > 0
        /\ (brand_match(r.brand) \/ brand_match(r.name)))

\* x_new or x_old of a CHANGES row
NewOrOld(n, o) == IF n # NoText THEN n ELSE o

\* _filter_hits_changes: df_ch.loc[f & in_brand]
filter_hits_changes(df_ch) ==
    SelectSeq(df_ch, LAMBDA e :
        /\ FillZero(e.new.discount_pct) > 0
        /\ (\/ brand_match(NewOrOld(e.new.brand, e.old.brand))
            \/ brand_match(NewOrOld(e.new.name, e.old.name))))

\* _send_brand_alerts
send_brand_alerts(new_hits, chg_hits) ==
    IF new_hits = << >> /\ chg_hits = << >> THEN NoMail
    ELSE Mail(TRUE, new_hits, chg_hits)

\* the DataFrame of scrape_category (palacio_manual_runner_selenium.py)
FrameSelenium(snap) ==
    [i \in 1..Len(snap) |->
        Row(snap[i], DiscountParseTile(snap[i].list_price, snap[i].sale_price))]

\* _changes_merge of palacio_manual_runner_selenium.py
changes_merge_selenium(has, prevSnap, curSnap) ==
    LET cur_df == FrameSelenium(curSnap)
    IN  IF ~has \/ prevSnap = << >>
        THEN Result("product_id", << >>, cur_df, << >>, FALSE)
        ELSE LET prev_df == FrameSelenium(prevSnap)
                 key     == PidOrSku(prev_df, cur_df)
             IN  MergedResult(key, MergeOuter(prev_df, cur_df, key), "MaskSnapshot")

Alerted(name, diff, result, mail) ==
    /\ runner = "none"
    /\ runner' = name
    /\ impl' = diff
    /\ out' = result
    /\ alert' = mail
    /\ UNCHANGED << hasPrev, prev, cur >>
    /\ UNCHANGED << brands, discount_threshold, watchlist_alerts_flag >>
    /\ UNCHANGED scrapeVars
    /\ UNCHANGED parseVars
    /\ UNCHANGED storeVars
    /\ UNCHANGED masterVars

\* run_single_category of palacio_manual_runner.py, from the diff to the alert
ManualRunnerAlerts ==
    LET r == changes_merge(hasPrev, prev, cur)
    IN  Alerted("palacio_manual_runner", "_changes_merge", r,
                send_brand_alerts(filter_hits_new(r.new_items),
                                  filter_hits_changes(r.changes)))

\* run_single_category of palacio_manual_runner_selenium.py
SeleniumRunnerAlerts ==
    LET r == changes_merge_selenium(hasPrev, prev, cur)
    IN  Alerted("palacio_manual_runner_selenium", "_changes_merge", r,
                send_brand_alerts(filter_hits_new(r.new_items),
                                  filter_hits_changes(r.changes)))

\* _watch_hit
watch_hit(brand) ==
    /\ brand # NoText
    /\ \E w \in WATCHLIST : Lower(brand) = Lower(w)

\* _filter of send_watchlist_alert: the brand mask, then the discount mask
watch_filter(df) ==
    SelectSeq(df, LAMBDA r :
        /\ watch_hit(r.brand)
        /\ FillZero(r.discount_pct) >= discount_threshold)

\* send_watchlist_alert
send_watchlist_alert(new_df, changes_df) ==
    IF WATCHLIST = {} THEN NoMail
    ELSE LET hits_new == watch_filter(new_df)
             hits_chg == watch_filter(changes_df)
         IN  IF hits_new = << >> /\ hits_chg = << >> THEN NoMail
             ELSE Mail(TRUE, hits_new, hits_chg)

\* chg_for_alert of run_one: brand and discount_pct are brand_new and discount_pct_new
chg_for_alert(changes_df) ==
    [i \in 1..Len(changes_df) |->
        [key |-> changes_df[i].key, old |-> changes_df[i].old, new |-> changes_df[i].new,
         changed_fields |-> changes_df[i].changed_fields,
         brand |-> changes_df[i].new.brand,
         discount_pct |-> changes_df[i].new.discount_pct]]

\* run_one of v3, from the diff to the watchlist alert
RunOneAlerts ==
    LET r == run_one(hasPrev, prev, cur)
    IN  Alerted("palacio_manual_runner_selenium_v3", "_compute_diffs", r,
                IF watchlist_alerts_flag /\ WATCHLIST # {}
                THEN send_watchlist_alert(r.new_items, chg_for_alert(r.changes))
                ELSE NoMail)

AlertNext ==
    \/ ManualRunnerAlerts
    \/ SeleniumRunnerAlerts
    \/ RunOneAlerts

AlertSpec == AlertInit /\ [][AlertNext]_vars

\* a text names a listed brand: some entry of the list, in lower case, is part of it
NamesListedBrand(txt) == \E b \in brands : Contains(Lower(b), Lower(txt))

\* a NEW record with a discount whose brand or name names a listed brand
BrandHitNew(r) ==
    /\ r.discount_pct # NaN /\ r.discount_pct > 0
    /\ (NamesListedBrand(r.brand) \/ NamesListedBrand(r.name))

\* a CHANGES record with a new discount whose brand or name names a listed brand
BrandHitChange(e) ==
    /\ e.new.discount_pct # NaN /\ e.new.discount_pct > 0
    /\ \E txt \in { e.new.brand, e.old.brand, e.new.name, e.old.name } : NamesListedBrand(txt)

BrandRunners == { "palacio_manual_runner", "palacio_manual_runner_selenium" }

\* C21: a brand alert of the manual runners is sent only if some record of
\* NEW or CHANGES has a (new) discount_pct > 0 and a brand or name that
\* matches an entry of ALERT_BRANDS; every record attached to the alert is
\* such a record of NEW or CHANGES; no alert is sent when ALERT_BRANDS is empty
\* (palacio_manual_runner, palacio_manual_runner_selenium).
C21_BrandAlerts ==
    runner \in BrandRunners =>
        /\ alert.sent =>
              \/ \E i \in 1..Len(out.new_items) : BrandHitNew(out.new_items[i])
              \/ \E i \in 1..Len(out.changes) : BrandHitChange(out.changes[i])
        /\ \A i \in 1..Len(alert.hits_new) :
              /\ InSeq(alert.hits_new[i], out.new_items)
              /\ BrandHitNew(alert.hits_new[i])
        /\ \A i \in 1..Len(alert.hits_chg) :
              /\ InSeq(alert.hits_chg[i], out.changes)
              /\ BrandHitChange(alert.hits_chg[i])
        /\ (brands = {} => ~alert.sent)

\* an alert of the manual runner with a NEW and a CHANGES attachment
C21_Witness ==
    /\ runner = "palacio_manual_runner"
    /\ alert.sent
    /\ alert.hits_new # << >>
    /\ alert.hits_chg # << >>

\* the brand is on the watchlist: it equals an entry, letter case aside
OnWatchlist(brand) == \E w \in brands : Lower(brand) = Lower(w)

\* a record whose brand is on the watchlist and whose discount reaches the threshold
WatchHit(brand, pct) ==
    /\ OnWatchlist(brand)
    /\ pct # NaN
    /\ pct >= discount_threshold

\* C22: a watchlist alert of the v3 runner is sent only if a record of NEW
\* or CHANGES has a brand of WATCHLIST_BRANDS and a discount_pct >= the
\* discount threshold; every record listed in the attachment of the alert is
\* such a record of NEW or CHANGES.
C22_WatchlistAlerts ==
    runner = "palacio_manual_runner_selenium_v3" =>
        /\ alert.sent =>
              \/ \E i \in 1..Len(out.new_items) :
                    WatchHit(out.new_items[i].brand, out.new_items[i].discount_pct)
              \/ \E i \in 1..Len(out.changes) :
                    WatchHit(out.changes[i].new.brand, out.changes[i].new.discount_pct)
        /\ \A i \in 1..Len(alert.hits_new) :
              /\ InSeq(alert.hits_new[i], out.new_items)
              /\ WatchHit(alert.hits_new[i].brand, alert.hits_new[i].discount_pct)
        /\ \A i \in 1..Len(alert.hits_chg) :
              /\ InSeq(alert.hits_chg[i], chg_for_alert(out.changes))
              /\ WatchHit(alert.hits_chg[i].new.brand, alert.hits_chg[i].new.discount_pct)

(***************************************************************************)
(* aggregate_master.py: build_master over the reports that                 *)
(* palacio_category_snapshot.py leaves under out_palacio/<prefix>/<month>/.*)
(* A path is the sequence of its components; a folder name is the sequence *)
(* of its words between underscores ("palacio_ofertas" is                  *)
(* << "palacio", "ofertas" >>), so that replace("palacio_", "") is         *)
(* computed.  A sheet is its header and its rows.                          *)
(***************************************************************************)
\* largest number of reports in the folder
MaxReports == 2

Sheet(columns, rows) == [exists |-> TRUE, columns |-> columns, rows |-> rows]

\* a workbook without the sheet: read_excel raises
MissingSheet == [exists |-> FALSE, columns |-> {}, rows |-> << >>]

\* pd.DataFrame({"info": [...]}) of save_snapshot
InfoSheet == Sheet({"info"}, << "info" >>)

\* changes[cols_order]: no category column
ChangesSheet == Sheet({"product_id", "list_price_old", "list_price_new"}, << "c1" >>)

\* new_items / removed_items: the columns of the snapshot, category among them
ItemsSheet == Sheet({"product_id", "category", "list_price"}, << "r1", "r2" >>)

\* a header without rows
EmptySheet == Sheet({"product_id", "category", "list_price"}, << >>)

\* out_palacio/<prefix>/<month>/<prefix>_snapshot_<stamp>.xlsx, in sorted order
ReportPaths ==
    << << << "out", "palacio" >>, << "palacio", "deportes" >>, << "2025-10" >>, << "deportes.xlsx" >> >>,
       << << "out", "palacio" >>, << "palacio", "ofertas" >>, << "2025-09" >>, << "ofertas1.xlsx" >> >>,
       << << "out", "palacio" >>, << "palacio", "ofertas" >>, << "2025-10" >>, << "ofertas2.xlsx" >> >> >>

\* hours since the report was modified
Ages == { 1, 20 }

\* what one report holds
Contents ==
    [ age : Ages,
      changes : { InfoSheet, ChangesSheet, MissingSheet },
      new_items : { InfoSheet, ItemsSheet, EmptySheet },
      removed_items : { InfoSheet, ItemsSheet } ]

Report(i, c) ==
    [path |-> i, age |-> c.age, changes |-> c.changes,
     new_items |-> c.new_items, removed_items |-> c.removed_items]

\* the folders build_master can find: at most one report per path
Folders ==
    UNION { { { Report(i, f[i]) : i \in P } : f \in [P -> Contents] } :
            P \in { Q \in SUBSET (1..Len(ReportPaths)) : Cardinality(Q) <= MaxReports } }

MasterInit ==
    /\ hasPrev = FALSE /\ prev = << >> /\ cur = << >>
    /\ impl = "none" /\ out = NoDiff
    /\ NoScrape
    /\ NoParse
    /\ NoStore
    /\ NoAlert
    /\ reports \in Folders
    /\ hours_back \in { 8, 15 }
    /\ master = NotBuilt

\* _is_placeholder_df
is_placeholder_df(df) == df.columns = {"info"} \/ Len(df.rows) = 0

\* str.replace("palacio_", "") on the words of a name
RECURSIVE ReplacePalacio(_)
ReplacePalacio(name) ==
    IF Len(name) <= 1 THEN name
    ELSE IF Head(name) = "palacio" THEN ReplacePalacio(Tail(name))
    ELSE << Head(name) >> \o ReplacePalacio(Tail(name))

\* p.parents[k].name of a relative path ('.' has the empty name)
ParentName(p, k) ==
    LET q == SubSeq(p, 1, Len(p) - 1 - k)
    IN  IF q = << >> THEN << >> ELSE q[Len(q)]

\* _category_from_path
category_from_path(p) ==
    IF Len(p) < 3 THEN << "desconocido" >>
    ELSE ReplacePalacio(ParentName(p, 2))

\* pd.read_excel(p, sheet_name=...), or DataFrame(columns=["info"]) when it raises
read_excel(sheet) == IF sheet.exists THEN sheet ELSE Sheet({"info"}, << >>)

\* df.insert(0, "category", cat) / df.insert(1, "source_file", p.name) raise
\* ValueError when the column exists already
InsertRaises(df) == "category" \in df.columns \/ "source_file" \in df.columns

Tagged(df, cat, name) ==
    [i \in 1..Len(df.rows) |-> [category |-> cat, source_file |-> name, row |-> df.rows[i]]]

Lists(ch, nw, rm) == [all_changes |-> ch, all_new |-> nw, all_removed |-> rm]

\* the body of the loop of build_master for one report: the first insert
\* that raises ends the report, what was appended before it stays
ReadReport(acc, r) ==
    LET p      == ReportPaths[r.path]
        cat    == category_from_path(p)
        name   == p[Len(p)]
        df_ch  == read_excel(r.changes)
        df_new == read_excel(r.new_items)
        df_rm  == read_excel(r.removed_items)
        a1 == IF is_placeholder_df(df_ch) THEN acc
              ELSE [acc EXCEPT !.all_changes = @ \o Tagged(df_ch, cat, name)]
        a2 == IF is_placeholder_df(df_new) THEN a1
              ELSE [a1 EXCEPT !.all_new = @ \o Tagged(df_new, cat, name)]
        a3 == IF is_placeholder_df(df_rm) THEN a2
              ELSE [a2 EXCEPT !.all_removed = @ \o Tagged(df_rm, cat, name)]
    IN  IF ~is_placeholder_df(df_ch) /\ InsertRaises(df_ch) THEN acc
        ELSE IF ~is_placeholder_df(df_new) /\ InsertRaises(df_new) THEN a1
        ELSE IF ~is_placeholder_df(df_rm) /\ InsertRaises(df_rm) THEN a2
        ELSE a3

\* recent = [p for p in xlsx_files if (now - p.stat().st_mtime) <= hours_back*3600]
Recent(folder, hours) == { r \in folder : r.age <= hours }

\* for p in sorted(recent)
RECURSIVE ReadAll(_, _)
ReadAll(acc, rs) ==
    IF rs = {} THEN acc
    ELSE LET r == CHOOSE x \in rs : \A y \in rs : x.path <= y.path
         IN  ReadAll(ReadReport(acc, r), rs \ {r})

\* pd.concat(...) if the list has frames, else the placeholder frame
Concat(frames, info) == IF frames = << >> THEN << [info |-> info] >> ELSE frames

build_master(folder, hours) ==
    LET recent == Recent(folder, hours)
        all    == ReadAll(Lists(<< >>, << >>, << >>), recent)
    IN  IF recent = {}
        THEN [state |-> "none", CHANGES_ALL |-> << >>, NEW_ALL |-> << >>, REMOVED_ALL |-> << >>]
        ELSE [state |-> "written",
              CHANGES_ALL |-> Concat(all.all_changes, "Sin cambios de precio"),
              NEW_ALL     |-> Concat(all.all_new, "Sin nuevos productos"),
              REMOVED_ALL |-> Concat(all.all_removed, "Sin productos removidos")]

BuildMaster ==
    /\ master = NotBuilt
    /\ master' = build_master(reports, hours_back)
    /\ UNCHANGED << reports, hours_back >>
    /\ UNCHANGED diffVars
    /\ UNCHANGED scrapeVars
    /\ UNCHANGED parseVars
    /\ UNCHANGED storeVars
    /\ UNCHANGED alertVars

MasterNext == BuildMaster

MasterSpec == MasterInit /\ [][MasterNext]_vars

\* the reports modified in the last hours_back hours, in path order
RECURSIVE SortedReports(_)
SortedReports(rs) ==
    IF rs = {} THEN << >>
    ELSE LET r == CHOOSE x \in rs : \A y \in rs : x.path <= y.path
         IN  << r >> \o SortedReports(rs \ {r})

\* a sheet that is no placeholder: more than the single info column, and rows
HasRows(sheet) == sheet.exists /\ sheet.columns # {"info"} /\ sheet.rows # << >>

\* the rows the reports hold in one of their sheets, each with its file name
RowsOfReports(kind) ==
    LET rs == SortedReports({ r \in reports : r.age <= hours_back })
    IN  Flatten([i \in 1..Len(rs) |->
            IF HasRows(rs[i][kind])
            THEN [j \in 1..Len(rs[i][kind].rows) |->
                     << ReportPaths[rs[i].path][4], rs[i][kind].rows[j] >>]
            ELSE << >>])

\* the rows of a master sheet, each with its file name
RowsOfMaster(sheet) ==
    LET data == SelectSeq(sheet, LAMBDA x : "row" \in DOMAIN x)
    IN  [i \in 1..Len(data) |-> << data[i].source_file, data[i].row >>]

MasterSheetHolds(sheet, kind, info) ==
    /\ RowsOfMaster(sheet) = RowsOfReports(kind)
    /\ RowsOfReports(kind) = << >> => sheet = << [info |-> info] >>

\* C23: each sheet of the master holds exactly the rows of the CHANGES, NEW
\* and REMOVED sheets of the reports modified in the last hours_back hours;
\* placeholder sheets contribute nothing, and a master sheet without rows
\* holds the single placeholder row.
C23_MasterConcatenates ==
    master.state = "written" =>
        /\ MasterSheetHolds(master.CHANGES_ALL, "changes", "Sin cambios de precio")
        /\ MasterSheetHolds(master.NEW_ALL, "new_items", "Sin nuevos productos")
        /\ MasterSheetHolds(master.REMOVED_ALL, "removed_items", "Sin productos removidos")

Last(seq) == seq[Len(seq)]

\* the programs whose order of lookup and write C24 speaks of
LookupFirstTools == { "palacio_category_snapshot", "palacio_manual_runner", "v2" }

\* C24: in every run the previous snapshot is located before the snapshot of
\* the run is persisted: what the run compares with is a parquet that was in
\* the folder before the run, never the parquet the run itself writes
\* (save_snapshot, run_single_category of palacio_manual_runner, main of v2).
C24_LocatedBeforePersisted ==
    [][ (tool \in LookupFirstTools) =>
          /\ found' = NoFile \/ InSeq(found', store)
          /\ hasPrev' = (found' # NoFile)
          /\ prev' = found'.snapshot
          /\ (Len(store') > Len(store) => found' # Last(store')) ]_vars

\* a second run of a category whose scrape equals the persisted snapshot:
\* it found the first parquet, and wrote a second one
C24_Witness ==
    /\ tool \in LookupFirstTools
    /\ Len(store) = 2
    /\ store[1].prefix = store[2].prefix
    /\ store[1].snapshot = store[2].snapshot
    /\ store[2].snapshot # << >>
    /\ found = store[1]

\* the rows of the master that come from reports
MasterRows ==
    SelectSeq(master.CHANGES_ALL \o master.NEW_ALL \o master.REMOVED_ALL,
              LAMBDA x : "row" \in DOMAIN x)

\* <category> of out_palacio/palacio_<category>/<YYYY-MM>/<file>.xlsx
CategoryOfReport(p) == Tail(p[2])

\* C25: the category written into the master for a row of the report
\* out_palacio/palacio_<category>/<YYYY-MM>/<file>.xlsx is <category>, the
\* name of the category folder without its prefix palacio_
\* (_category_from_path).
C25_CategoryFromPath ==
    master.state = "written" =>
        \A i \in 1..Len(MasterRows) : \A k \in 1..Len(ReportPaths) :
            MasterRows[i].source_file = ReportPaths[k][4] =>
                MasterRows[i].category = CategoryOfReport(ReportPaths[k])

(***************************************************************************)
(* The page loops again: how many pages a loop asks for, when it stops,    *)
(* and which offsets of the listing its requests cover.                    *)
(***************************************************************************)
\* C26: whatever the site answers, a page loop processes (requests) at most
\* max_pages pages, and it has ended once it has made max_pages iterations.
C26_LoopBounded ==
    /\ Len(requests) <= MaxPages
    /\ page_idx <= MaxPages
    /\ (page_idx = MaxPages => ~looping)

\* the page loops that keep a streak of pages without a new record
StreakScrapers ==
    { "run_single_category", "run_single_category_ramonly", "scrape_category",
      "run_job" }

\* STOP_AFTER_EMPTY (stop_after_empty) of a page loop
StopAfterEmptyOf(s) ==
    IF s = "run_job" THEN STOP_AFTER_EMPTY_adolfo
    ELSE IF s = "scrape_category" THEN StopAfterEmptyV2
    ELSE STOP_AFTER_EMPTY

\* the page holds a card whose key the run has not seen
YieldsNew(pg, seen) ==
    /\ pg.ok
    /\ \E i \in 1..Len(pg.tiles) :
          DedupKey(pg.tiles[i]) # NULL /\ DedupKey(pg.tiles[i]) \notin seen

\* the fetch of the page raises out of the loop
FetchRaises(s, pg) == s = "run_job" /\ ~pg.ok

StartSzScrapers == { "run_single_category", "run_single_category_ramonly" }

\* the offset lies in [start, start + sz) of the request
Covers(req, offset) == req.start <= offset /\ offset < req.start + req.sz

\* the end of the last requested page
EndOfRequests == Last(requests).start + Last(requests).sz

\* C28: the requests of a start / sz run cover the listing without gaps: every
\* offset from the initial start (0) up to the end of the last requested page
\* lies in [start, start + sz) of some request, with the page size and step
\* of the category and with a smaller fallback size.
C28_OffsetCoverage ==
    (scraper \in StartSzScrapers /\ requests # << >>) =>
        \A offset \in 0..(EndOfRequests - 1) :
            \E k \in 1..Len(requests) : Covers(requests[k], offset)

(***************************************************************************)
(* Runs whose scrape gave no record.                                       *)
(***************************************************************************)
\* the programs that write the parquet whatever the scrape gave
PersistAlwaysTools == { "palacio_category_snapshot", "palacio_manual_runner" }

\* the parquets of a category in the folder
FilesOf(category) == SelectSeq(store, LAMBDA f : f.listing = category)

\* C29: every run persists its snapshot, also one without records; when the
\* last persisted snapshot of the category is empty, the run locates it as
\* its previous snapshot, reports every record of its scrape as new and
\* none as changed.
C29_EmptySnapshotPersisted ==
    [][ (tool \in PersistAlwaysTools) =>
          /\ Len(store') = Len(store) + 1
          /\ Last(store').snapshot = cur'
          /\ Last(store').listing = listing'
          /\ \A i \in 1..Len(store) : store'[i] = store[i]
          /\ (FilesOf(listing') # << >> /\ Last(FilesOf(listing')).snapshot = << >>) =>
                /\ found' = Last(FilesOf(listing'))
                /\ Len(out'.new_items) = Len(cur')
                /\ out'.new_items = Frame(cur')
                /\ out'.changes = << >> ]_vars

\* a run with records that followed a run of the same category without any:
\* both are persisted, the empty one was located, the records are all new
C29_Witness ==
    /\ tool \in PersistAlwaysTools
    /\ Len(store) = 2
    /\ store[1].snapshot = << >>
    /\ store[2].listing = store[1].listing
    /\ store[2].snapshot # << >>
    /\ found = store[1]
    /\ out.new_items = Frame(cur)
    /\ out.changes = << >>

====
